---- MODULE Spec2Model ----
(***************************************************************************)
(* PDF merger / splitter backend: the operation record (PdfOperation), the *)
(* request handlers (uploadFiles, mergePdfs, splitPdf), the background     *)
(* tasks (processMergeOperation, processSplitOperation) and the page       *)
(* selection of pdfService (mergePdfFiles, splitPdfFile, parsePageRange).  *)
(*                                                                         *)
(* A PDF is modelled by its page sequence; page p (0-based) of uploaded    *)
(* file f (0-based position in req.files) is the pair <<f, p>>.  A string  *)
(* is a sequence of one-character strings, so that the regular expression, *)
(* split('-') and parseInt act on characters.                              *)
(***************************************************************************)
EXTENDS Integers, Sequences, FiniteSets, TLC

VARIABLES req, resp, doc, db, pc, task, processed, now, polled,
          listing, store, sweep, served

(* The history listing, the file sweep and the last answer to a request for
   a file, which the requests and the tasks leave alone *)
aux == <<listing, store, sweep, served>>

vars == <<req, resp, doc, db, pc, task, processed, now, polled, aux>>

----------------------------------------------------------------------------
(* Bounds of the model *)

MaxOps == 2
MaxFiles == 3
MaxPages == 3
MaxMergePages == 2
MaxRangePages == 2
MaxRanges == 2
MaxClock == 1
SysMaxPages == 1

(* Program constants *)

MaxPagesPerFile == 100
MaxUploadFiles == 10

Ops == 1..MaxOps

Corrupt == -1
Null == -1

----------------------------------------------------------------------------
(* Generic helpers *)

Min(a, b) == IF a < b THEN a ELSE b

Max(a, b) == IF a > b THEN a ELSE b

RECURSIVE SeqsUpTo(_, _)
SeqsUpTo(S, n) ==
  IF n = 0 THEN {<<>>}
  ELSE LET shorter == SeqsUpTo(S, n - 1)
       IN  shorter \cup {Append(s, x) : s \in shorter, x \in S}

RECURSIVE Concat(_)
Concat(ss) == IF ss = <<>> THEN <<>> ELSE Head(ss) \o Concat(Tail(ss))

RECURSIVE SumSeq(_)
SumSeq(s) == IF s = <<>> THEN 0 ELSE Head(s) + SumSeq(Tail(s))

Range(s) == {s[i] : i \in DOMAIN s}

(* The pages of an uploaded document of n pages that is file f of a request *)
PagesOf(f, n) == [i \in 1..n |-> <<f, i - 1>>]

----------------------------------------------------------------------------
(* Merge: the order keys, the ordered files and the stable sort *)

(* mergePdfs: order: mergeOrder[index] || index.  The number 0 and undefined
   are falsy; a JSON string element, "0" too, is truthy.  quoted is the set
   of positions of mergeOrder whose element is a JSON string of a number *)
OrderKey(mergeOrder, quoted, index) ==
  IF /\ index + 1 \in DOMAIN mergeOrder
     /\ mergeOrder[index + 1] # 0 \/ index + 1 \in quoted
  THEN mergeOrder[index + 1]
  ELSE index

(* mergePdfs: req.files.map((file, index) => ({..., order})) *)
InputFiles(nFiles, mergeOrder, quoted) ==
  [i \in 1..nFiles |->
     [idx |-> i - 1, order |-> OrderKey(mergeOrder, quoted, i - 1)]]

(* processMergeOperation: mergeOrder.map(index => inputFiles[index])
   .filter(Boolean), or inputFiles when there is no merge order *)
OrderedFiles(inputFiles, mergeOrder) ==
  IF Len(mergeOrder) > 0
  THEN LET picked == [k \in 1..Len(mergeOrder) |->
                        IF mergeOrder[k] + 1 \in DOMAIN inputFiles
                        THEN <<inputFiles[mergeOrder[k] + 1]>> ELSE <<>>]
       IN  Concat(picked)
  ELSE inputFiles

(* (a.order || 0) - (b.order || 0) *)
CompareMutReversed(a, b) == b.order - a.order

Compare(a, b) == a.order - b.order

(* Array.prototype.sort with a comparator: stable *)
RECURSIVE InsertSorted(_, _)
InsertSorted(sorted, x) ==
  IF sorted = <<>> THEN <<x>>
  ELSE IF Compare(Head(sorted), x) <= 0
       THEN <<Head(sorted)>> \o InsertSorted(Tail(sorted), x)
       ELSE <<x>> \o sorted

RECURSIVE SortFiles(_)
SortFiles(files) ==
  IF files = <<>> THEN <<>>
  ELSE InsertSorted(SortFiles(SubSeq(files, 1, Len(files) - 1)), files[Len(files)])

(* mergePdfFiles: the page sequence of the merged document once the first
   n files of sortedFiles have been copied *)
RECURSIVE CopiedPages(_, _, _)
CopiedPages(files, sorted, n) ==
  IF n = 0 THEN <<>>
  ELSE CopiedPages(files, sorted, n - 1)
         \o PagesOf(sorted[n].idx, files[sorted[n].idx + 1])

----------------------------------------------------------------------------
(* Strings, the range pattern and parseInt *)

DigitChars == <<"0", "1", "2", "3", "4", "5", "6", "7", "8", "9">>

IsDigit(c) == \E d \in DOMAIN DigitChars : DigitChars[d] = c

DigitVal(c) == (CHOOSE d \in DOMAIN DigitChars : DigitChars[d] = c) - 1

(* Number.prototype.toString of a natural number *)
RECURSIVE ToStr(_)
ToStr(n) ==
  IF n < 10 THEN <<DigitChars[n + 1]>>
  ELSE ToStr(n \div 10) \o <<DigitChars[(n % 10) + 1]>>

NaN == -1

IsNaN(x) == x = NaN

(* parseInt of a string without sign or blanks: the value of its longest
   prefix of digits, NaN when that prefix is empty *)
RECURSIVE DigitsValue(_, _)
DigitsValue(s, acc) ==
  IF s = <<>> \/ ~IsDigit(Head(s)) THEN acc
  ELSE DigitsValue(Tail(s), acc * 10 + DigitVal(Head(s)))

ParseInt(s) ==
  IF s = <<>> \/ ~IsDigit(Head(s)) THEN NaN ELSE DigitsValue(s, 0)

(* String.prototype.split('-') *)
RECURSIVE SplitDash(_, _)
SplitDash(s, cur) ==
  IF s = <<>> THEN <<cur>>
  ELSE IF Head(s) = "-" THEN <<cur>> \o SplitDash(Tail(s), <<>>)
       ELSE SplitDash(Tail(s), Append(cur, Head(s)))

Includes(s, c) == \E i \in DOMAIN s : s[i] = c

AllDigits(s) == s # <<>> /\ \A i \in DOMAIN s : IsDigit(s[i])

(* /^\d+(-\d+)?$/ *)
MatchesRangePattern(s) ==
  LET parts == SplitDash(s, <<>>)
  IN  /\ Len(parts) \in {1, 2}
      /\ \A k \in DOMAIN parts : AllDigits(parts[k])

StartAfterEnd(start, end) == start > end

(* parsePageRange: ok is FALSE where the code throws *)

parsePageRange(range, totalPages) ==
  IF Includes(range, "-")
  THEN LET parts == SplitDash(range, <<>>)
           start == ParseInt(parts[1])
           end == ParseInt(parts[2])
       IN  IF IsNaN(start) \/ IsNaN(end) \/ start < 1 \/ end > totalPages
              \/ StartAfterEnd(start, end)
           THEN [ok |-> FALSE, startPage |-> 0, endPage |-> 0]
           ELSE [ok |-> TRUE, startPage |-> start, endPage |-> end]
  ELSE LET pageNum == ParseInt(range)
       IN  IF IsNaN(pageNum) \/ pageNum < 1 \/ pageNum > totalPages
           THEN [ok |-> FALSE, startPage |-> 0, endPage |-> 0]
           ELSE [ok |-> TRUE, startPage |-> pageNum, endPage |-> pageNum]

(* The 0-based page indices lo, lo+1, ..., hi-1 copied from the input *)
PageIndicesMutFromOne(lo, hi) == [j \in 1..(hi - lo) |-> <<0, lo + j>>]

PageIndices(lo, hi) == [j \in 1..(hi - lo) |-> <<0, lo + j - 1>>]

(* Math.ceil(a / b) for a >= 0, b >= 1 *)
CeilDiv(a, b) == (a + b - 1) \div b

(* splitPdfFile iterates pageRanges: the elements of an array, the characters
   of a string *)
RangeElements(pageRanges) ==
  IF pageRanges.form = "array" THEN pageRanges.val
  ELSE IF pageRanges.form = "string"
       THEN [k \in 1..Len(pageRanges.val[1]) |-> <<pageRanges.val[1][k]>>]
       ELSE <<>>

ValidPagesPerFileMutAtLeastTwo(pagesPerFile) == Max(2, pagesPerFile)

(* case 'size': Math.max(1, parseInt(pagesPerFile)) *)
ValidPagesPerFile(pagesPerFile) == Max(1, pagesPerFile)

(* The number of turns of the loop of the split type *)
NumberOfOutputs(splitType, pageRanges, pagesPerFile, totalPages) ==
  IF splitType = "pages" THEN totalPages
  ELSE IF splitType = "range" THEN Len(RangeElements(pageRanges))
  ELSE CeilDiv(totalPages, ValidPagesPerFile(pagesPerFile))

(* case 'size': the pages of file fileIndex (0-based) *)
ChunkStart(fileIndex, k) == fileIndex * k

ChunkEndMutNoClamp(fileIndex, k, totalPages) == ChunkStart(fileIndex, k) + k

ChunkEnd(fileIndex, k, totalPages) == Min(ChunkStart(fileIndex, k) + k, totalPages)

----------------------------------------------------------------------------
(* The operation record: PdfOperation *)

OperationTypes == {"merge", "split"}

Statuses == {"pending", "processing", "completed", "failed"}

NoMetadata ==
  [mergeOrder |-> <<>>, splitType |-> "", pageRanges |-> <<>>, pagesPerFile |-> 0]

NoRecord ==
  [operationId |-> 0, operationType |-> "", status |-> "", inputFiles |-> <<>>,
   outputFiles |-> <<>>, metadata |-> NoMetadata, startTime |-> Null,
   endTime |-> Null, duration |-> Null, errorMessage |-> "",
   createdAt |-> Null]

Exists(r) == r.operationId # 0

(* new PdfOperation({...}): outputFiles defaults to [], processing to {} *)
NewOperation(id, type, status, nFiles, metadata) ==
  [operationId |-> id, operationType |-> type, status |-> status,
   inputFiles |-> [i \in 1..nFiles |-> i - 1], outputFiles |-> <<>>,
   metadata |-> metadata, startTime |-> Null, endTime |-> Null,
   duration |-> Null, errorMessage |-> "", createdAt |-> Null]

(* timestamps: true: the save that inserts the document sets createdAt *)
Inserted(d, t) == [d EXCEPT !.createdAt = t]

(* The schema's validators, run by save(): the enums of operationType and status *)
SchemaValid(d) == d.operationType \in OperationTypes /\ d.status \in Statuses

MarkAsProcessingMutNoStatus(d, t) == [d EXCEPT !.startTime = t]

(* markAsProcessing, up to its save() *)
MarkAsProcessing(d, t) == [d EXCEPT !.status = "processing", !.startTime = t]

MarkAsCompletedMutPending(d, outputFiles, t) ==
  [d EXCEPT !.status = "pending", !.endTime = t,
            !.duration = t - d.startTime, !.outputFiles = outputFiles]

(* markAsCompleted, up to its save() *)
MarkAsCompleted(d, outputFiles, t) ==
  [d EXCEPT !.status = "completed", !.endTime = t,
            !.duration = t - d.startTime, !.outputFiles = outputFiles]

(* markAsFailed, up to its save() *)
MarkAsFailed(d, errorMessage, t) ==
  [d EXCEPT !.status = "failed", !.endTime = t, !.errorMessage = errorMessage]

----------------------------------------------------------------------------
(* Requests *)

NoRequest ==
  [kind |-> "none", files |-> <<>>, mergeOrder |-> <<>>, quoted |-> {},
   splitType |-> "",
   pageRanges |-> [form |-> "absent", val |-> <<>>], pagesPerFile |-> 1]

(* The last answer of GET /status/:operationId for an operation; code 0
   before the first poll *)
NoPoll ==
  [code |-> 0, status |-> "", error |-> "", duration |-> Null, outputs |-> <<>>]

NoTask ==
  [files |-> <<>>, i |-> 0, total |-> 0, outputPaths |-> <<>>]

(* Output file names: merged_<id>_<ts>.pdf, split_<id>_page_<a>_<ts>.pdf,
   split_<id>_range_<a>-<b>_<ts>.pdf, split_<id>_part_<a>_<ts>.pdf *)
FileName(kind, id, a, b, ts) == [kind |-> kind, op |-> id, a |-> a, b |-> b, ts |-> ts]

(* No file: the answer is an error or a JSON body *)
NoFile == FileName("none", 0, 0, 0, 0)

(* The answer to a request for a file: the route, its operation, fileIndex
   and file name parameters, the status code, the message of an error and the
   file that is sent *)
NoAnswer ==
  [route |-> "", op |-> 0, arg |-> <<>>, wanted |-> NoFile, code |-> 0,
   message |-> "", file |-> NoFile]

(* fs.writeFile(outputPath, bytes): creates or overwrites *)
WriteFile(dir, name, pages) ==
  [n \in DOMAIN dir \cup {name} |-> IF n = name THEN pages ELSE dir[n]]

----------------------------------------------------------------------------
(* State *)

Init ==
  /\ req = [o \in Ops |-> NoRequest]
  /\ resp = [o \in Ops |-> 0]
  /\ doc = [o \in Ops |-> NoRecord]
  /\ db = [o \in Ops |-> NoRecord]
  /\ pc = [o \in Ops |-> "none"]
  /\ task = [o \in Ops |-> NoTask]
  /\ processed = <<>>
  /\ now = 0
  /\ polled = [o \in Ops |-> NoPoll]
  /\ listing = <<>>
  /\ store = [d \in 1..3 |-> <<>>]
  /\ sweep = [pc |-> "idle", now |-> 0, dir |-> 0, files |-> {},
              outputs |-> {}, before |-> [d \in 1..3 |-> <<>>],
              removed |-> {}, skipped |-> {}, unlisted |-> {}]
  /\ served = NoAnswer

(* An unhandled rejection of a task's promise ends the process
   (process.exit(1)): no request is served and no task goes on *)
ServerUp == \A p \in Ops : pc[p] # "escaped"

(* Requests arrive one slot after the other; slot o is the o-th request and
   uuidv4() gives it the operationId o *)
Fresh(o) ==
  /\ ServerUp
  /\ req[o] = NoRequest
  /\ IF o = 1 THEN TRUE ELSE req[o - 1] # NoRequest

(* The request is answered with an error status and nothing else happens *)
Reject(o, r, status) ==
  /\ req' = [req EXCEPT ![o] = r]
  /\ resp' = [resp EXCEPT ![o] = status]
  /\ UNCHANGED <<doc, db, pc, task, processed, now, polled, aux>>

(* uuidv4(): an id that no record has or, improbably, the id of a record
   that is stored *)
Uuids(o) == {o} \cup {db[p].operationId : p \in {q \in Ops : Exists(db[q])}}

DuplicateKeyMutNoIndex(record, o) == FALSE

(* The unique index on operationId refuses the insert of a record whose
   operationId another stored record has (E11000) *)
DuplicateKey(record, o) ==
  \E p \in Ops \ {o} :
    Exists(db[p]) /\ db[p].operationId = record.operationId

(* save() of the new document is refused by the unique index; the error
   handler answers 400 (handleDuplicateFieldsDB) and the document built in
   memory is never stored *)
RejectDuplicate(o, r, created) ==
  /\ req' = [req EXCEPT ![o] = r]
  /\ resp' = [resp EXCEPT ![o] = 400]
  /\ doc' = [doc EXCEPT ![o] = created]
  /\ UNCHANGED <<db, pc, task, processed, now, polled, aux>>

CatchMutRetry(o, errorMessage, t) ==
  /\ doc' = doc
  /\ pc' = [pc EXCEPT ![o] = "marking"]
  /\ now' = t

(* The catch block of a background task: markAsFailed(error.message), whose
   save() is then awaited *)
Catch(o, errorMessage, t) ==
  /\ doc' = [doc EXCEPT ![o] = MarkAsFailed(doc[o], errorMessage, t)]
  /\ pc' = [pc EXCEPT ![o] = "failing"]
  /\ now' = t

(* Date.now() / new Date(): the clock never runs backward *)
Clock == now..MaxClock

----------------------------------------------------------------------------
(* POST /merge: uploadMiddleware, validateMergeRequest, mergePdfs *)

(* validateMergeRequest's checks of mergeOrder: bounds, where < and >=
   compare a string element by its number, then duplicates, where the Set
   keeps the number 1 and the string "1" apart *)
MergeOrderValid(nFiles, mergeOrder, quoted) ==
  /\ \A k \in DOMAIN mergeOrder : mergeOrder[k] >= 0 /\ mergeOrder[k] < nFiles
  /\ Cardinality({<<mergeOrder[k], k \in quoted>> : k \in DOMAIN mergeOrder})
       = Len(mergeOrder)

MergeRequestValid(r) ==
  /\ Len(r.files) <= MaxUploadFiles
  /\ Len(r.files) >= 2
  /\ MergeOrderValid(Len(r.files), r.mergeOrder, r.quoted)

(* The handler up to the acknowledgement: the record is saved in pending,
   processMergeOperation runs to its first await (markAsProcessing's save),
   and 202 is sent *)
mergePdfs(o, r) ==
  /\ Fresh(o)
  /\ r.kind = "merge"
  /\ IF ~MergeRequestValid(r) THEN Reject(o, r, 400)
     ELSE \E id \in Uuids(o) :
          LET created == NewOperation(id, "merge", "pending", Len(r.files),
                           [NoMetadata EXCEPT !.mergeOrder =
                              IF Len(r.mergeOrder) > 0 THEN r.mergeOrder
                              ELSE [i \in 1..Len(r.files) |-> i - 1]])
          IN  IF DuplicateKey(created, o) THEN RejectDuplicate(o, r, created)
              ELSE
              \/ /\ SchemaValid(created)
                 /\ \E t \in Clock :
                      /\ doc' = [doc EXCEPT ![o] =
                                   MarkAsProcessing(Inserted(created, t), t)]
                      /\ db' = [db EXCEPT ![o] = Inserted(created, t)]
                      /\ now' = t
                 /\ req' = [req EXCEPT ![o] = r]
                 /\ resp' = [resp EXCEPT ![o] = 202]
                 /\ pc' = [pc EXCEPT ![o] = "marking"]
                 /\ UNCHANGED <<task, processed, polled, aux>>
              \/ Reject(o, r, 500)

----------------------------------------------------------------------------
(* POST /split: uploadMiddleware, validateSplitRequest, splitPdf *)

SplitTypes == {"pages", "range", "size"}

(* splitSchema (Joi): splitType, pageRanges and pagesPerFile *)
SplitSchemaValid(r) ==
  /\ r.splitType \in SplitTypes \cup {""}
  /\ \A k \in DOMAIN r.pageRanges.val : MatchesRangePattern(r.pageRanges.val[k])
  /\ r.pagesPerFile >= 1
  /\ r.pagesPerFile <= MaxPagesPerFile

(* splitType after the schema's default('pages') *)
SplitTypeOf(r) == IF r.splitType = "" THEN "pages" ELSE r.splitType

(* validateSplitRequest's own check of a dash range: start >= end is refused *)
RangeValuesRefused(range) ==
  /\ Includes(range, "-")
  /\ LET parts == SplitDash(range, <<>>)
     IN  ParseInt(parts[1]) >= ParseInt(parts[2])

SplitRequestValid(r) ==
  /\ Len(r.files) <= MaxUploadFiles
  /\ Len(r.files) = 1
  /\ SplitSchemaValid(r)
  /\ SplitTypeOf(r) = "range" =>
       /\ r.pageRanges.form # "absent"
       /\ r.pageRanges.val # <<>>
       /\ \A k \in DOMAIN r.pageRanges.val :
            /\ MatchesRangePattern(r.pageRanges.val[k])
            /\ ~RangeValuesRefused(r.pageRanges.val[k])

(* metadata.splitOptions as splitPdf records it *)
SplitMetadata(r) ==
  [NoMetadata EXCEPT !.splitType = SplitTypeOf(r),
                     !.pageRanges = r.pageRanges.val,
                     !.pagesPerFile = r.pagesPerFile]

(* The handler up to the acknowledgement: the record is saved in pending,
   processSplitOperation runs to its first await (markAsProcessing's save),
   and 202 is sent *)
splitPdf(o, r) ==
  /\ Fresh(o)
  /\ r.kind = "split"
  /\ IF ~SplitRequestValid(r) THEN Reject(o, r, 400)
     ELSE \E id \in Uuids(o) :
          LET created == NewOperation(id, "split", "pending", 1, SplitMetadata(r))
          IN  IF DuplicateKey(created, o) THEN RejectDuplicate(o, r, created)
              ELSE
              \/ /\ SchemaValid(created)
                 /\ \E t \in Clock :
                      /\ doc' = [doc EXCEPT ![o] =
                                   MarkAsProcessing(Inserted(created, t), t)]
                      /\ db' = [db EXCEPT ![o] = Inserted(created, t)]
                      /\ now' = t
                 /\ req' = [req EXCEPT ![o] = r]
                 /\ resp' = [resp EXCEPT ![o] = 202]
                 /\ pc' = [pc EXCEPT ![o] = "marking"]
                 /\ UNCHANGED <<task, processed, polled, aux>>
              \/ Reject(o, r, 500)

----------------------------------------------------------------------------
(* POST /upload: uploadMiddleware, uploadFiles *)

(* The record is built with operationType 'upload' and status 'completed';
   save() runs the schema's validators and the error handler answers a
   ValidationError with 400 *)
uploadFiles(o, r) ==
  /\ Fresh(o)
  /\ r.kind = "upload"
  /\ IF Len(r.files) = 0 \/ Len(r.files) > MaxUploadFiles THEN Reject(o, r, 400)
     ELSE LET created == NewOperation(o, "upload", "completed", Len(r.files),
                                      NoMetadata)
          IN  IF ~SchemaValid(created) THEN Reject(o, r, 400)
              ELSE \/ /\ db' = [db EXCEPT ![o] = created]
                      /\ doc' = [doc EXCEPT ![o] = created]
                      /\ req' = [req EXCEPT ![o] = r]
                      /\ resp' = [resp EXCEPT ![o] = 200]
                      /\ UNCHANGED <<pc, task, processed, now, polled, aux>>
                   \/ Reject(o, r, 500)

----------------------------------------------------------------------------
(* The background tasks: processMergeOperation and processSplitOperation *)

(* markAsProcessing's save() settles *)
markAsProcessingSaved(o) ==
  /\ ServerUp
  /\ pc[o] = "marking"
  /\ \/ /\ SchemaValid(doc[o])
        /\ db' = [db EXCEPT ![o] = doc[o]]
        /\ IF doc[o].operationType = "merge"
           THEN /\ task' = [task EXCEPT ![o].files =
                     SortFiles(OrderedFiles(
                       InputFiles(Len(req[o].files), req[o].mergeOrder,
                                  req[o].quoted),
                       req[o].mergeOrder))]
                /\ pc' = [pc EXCEPT ![o] = "merging"]
           ELSE /\ task' = task
                /\ pc' = [pc EXCEPT ![o] = "splitLoad"]
        /\ UNCHANGED <<doc, now>>
     \/ /\ \E t \in Clock : Catch(o, "save", t)
        /\ UNCHANGED <<db, task>>
  /\ UNCHANGED <<polled, aux, req, resp, processed>>

LoadableMutAlways(pageCount) == TRUE

(* fs.readFile and PDFDocument.load of an uploaded file return a document *)
Loadable(pageCount) == pageCount # Corrupt

(* mergePdfFiles: one turn of the loop reads, loads and copies the next file *)
mergeLoadFile(o) ==
  /\ ServerUp
  /\ pc[o] = "merging"
  /\ task[o].i < Len(task[o].files)
  /\ LET file == task[o].files[task[o].i + 1]
     IN  IF ~Loadable(req[o].files[file.idx + 1])
         THEN /\ \E t \in Clock : Catch(o, "Failed to merge PDFs: load", t)
              /\ task' = task
         ELSE /\ task' = [task EXCEPT ![o].i = @ + 1]
              /\ UNCHANGED <<doc, pc, now>>
  /\ UNCHANGED <<polled, aux, req, resp, db, processed>>

(* mergePdfFiles: after the loop the merged document is saved and written *)
mergeWriteFile(o) ==
  /\ ServerUp
  /\ pc[o] = "merging"
  /\ task[o].i = Len(task[o].files)
  /\ \E ts \in Clock :
       \/ LET name == FileName("merged", doc[o].operationId, 0, 0, ts)
          IN  /\ processed' = WriteFile(processed, name,
                    CopiedPages(req[o].files, task[o].files, task[o].i))
              /\ task' = [task EXCEPT ![o].outputPaths = <<name>>]
              /\ pc' = [pc EXCEPT ![o] = "stat"]
              /\ now' = ts
              /\ doc' = doc
       \/ /\ Catch(o, "Failed to merge PDFs: write", ts)
          /\ UNCHANGED <<task, processed>>
  /\ UNCHANGED <<polled, aux, req, resp, db>>

(* splitPdfFile: the input is read and loaded; the range case refuses an empty
   pageRanges before its loop *)
splitLoad(o) ==
  /\ ServerUp
  /\ pc[o] = "splitLoad"
  /\ LET total == req[o].files[1]
         type == SplitTypeOf(req[o])
     IN  IF ~Loadable(total)
         THEN /\ \E t \in Clock : Catch(o, "Failed to split PDF: load", t)
              /\ task' = task
         ELSE IF type = "range" /\ Len(RangeElements(req[o].pageRanges)) = 0
         THEN /\ \E t \in Clock :
                   Catch(o, "Failed to split PDF: Page ranges must be provided", t)
              /\ task' = task
         ELSE /\ task' = [task EXCEPT ![o].total = total]
              /\ pc' = [pc EXCEPT ![o] =
                   IF NumberOfOutputs(type, req[o].pageRanges,
                                      req[o].pagesPerFile, total) = 0
                   THEN "stat" ELSE "splitting"]
              /\ UNCHANGED <<doc, now>>
  /\ UNCHANGED <<polled, aux, req, resp, db, processed>>

(* The message of the error parsePageRange throws, as splitPdfFile rethrows
   it; it stands for the two texts of the parser, which also carry the token
   and the page count *)
InvalidRangeMessage == "Failed to split PDF: Invalid page range"

(* The output of turn i (0-based) of the loop of the split type: ok is FALSE
   where parsePageRange throws *)
SplitOutput(type, pageRanges, pagesPerFile, total, i) ==
  IF type = "pages"
  THEN [ok |-> TRUE, kind |-> "page", a |-> i + 1, b |-> 0,
        pages |-> PageIndices(i, i + 1)]
  ELSE IF type = "range"
  THEN LET parsed == parsePageRange(RangeElements(pageRanges)[i + 1], total)
       IN  [ok |-> parsed.ok, kind |-> "range", a |-> parsed.startPage,
            b |-> parsed.endPage,
            pages |-> IF parsed.ok
                      THEN PageIndices(parsed.startPage - 1, parsed.endPage)
                      ELSE <<>>]
  ELSE LET k == ValidPagesPerFile(pagesPerFile)
       IN  [ok |-> TRUE, kind |-> "part", a |-> i + 1, b |-> 0,
            pages |-> PageIndices(ChunkStart(i, k), ChunkEnd(i, k, total))]

(* splitPdfFile: one turn of the loop builds one document and writes it *)
splitWriteNext(o) ==
  /\ ServerUp
  /\ pc[o] = "splitting"
  /\ LET type == SplitTypeOf(req[o])
         count == NumberOfOutputs(type, req[o].pageRanges, req[o].pagesPerFile,
                                  task[o].total)
         out == SplitOutput(type, req[o].pageRanges, req[o].pagesPerFile,
                            task[o].total, task[o].i)
     IN  IF ~out.ok
         THEN /\ \E t \in Clock :
                   Catch(o, InvalidRangeMessage, t)
              /\ UNCHANGED <<task, processed>>
         ELSE \E ts \in Clock :
                \/ LET name == FileName(out.kind, doc[o].operationId, out.a, out.b, ts)
                   IN  /\ processed' = WriteFile(processed, name, out.pages)
                       /\ task' = [task EXCEPT ![o].i = @ + 1,
                                      ![o].outputPaths = Append(@, name)]
                       /\ pc' = [pc EXCEPT ![o] =
                            IF task[o].i + 1 = count THEN "stat" ELSE "splitting"]
                       /\ now' = ts
                       /\ doc' = doc
                \/ /\ Catch(o, "Failed to split PDF: write", ts)
                   /\ UNCHANGED <<task, processed>>
  /\ UNCHANGED <<polled, aux, req, resp, db>>

(* fs.stat of every output path, then markAsCompleted up to its save() *)
statOutputs(o) ==
  /\ ServerUp
  /\ pc[o] = "stat"
  /\ \E t \in Clock :
       IF \A k \in DOMAIN task[o].outputPaths :
            task[o].outputPaths[k] \in DOMAIN processed
       THEN /\ doc' = [doc EXCEPT ![o] =
                         MarkAsCompleted(doc[o], task[o].outputPaths, t)]
            /\ pc' = [pc EXCEPT ![o] = "completing"]
            /\ now' = t
       ELSE Catch(o, "ENOENT", t)
  /\ UNCHANGED <<polled, aux, req, resp, db, task, processed>>

(* markAsCompleted's save() settles; its rejection is caught by the task *)
markAsCompletedSaved(o) ==
  /\ ServerUp
  /\ pc[o] = "completing"
  /\ \/ /\ SchemaValid(doc[o])
        /\ db' = [db EXCEPT ![o] = doc[o]]
        /\ pc' = [pc EXCEPT ![o] = "done"]
        /\ UNCHANGED <<doc, now>>
     \/ /\ \E t \in Clock : Catch(o, "save", t)
        /\ db' = db
  /\ UNCHANGED <<polled, aux, req, resp, task, processed>>

(* markAsFailed's save() settles: it writes every path modified since the last
   successful save; its rejection leaves the catch block *)
markAsFailedSaved(o) ==
  /\ ServerUp
  /\ pc[o] = "failing"
  /\ \/ /\ SchemaValid(doc[o])
        /\ db' = [db EXCEPT ![o] = doc[o]]
        /\ pc' = [pc EXCEPT ![o] = "done"]
     \/ /\ pc' = [pc EXCEPT ![o] = "escaped"]
        /\ db' = db
  /\ UNCHANGED <<polled, aux, req, resp, doc, task, processed, now>>

----------------------------------------------------------------------------
(* Request sets *)

PageCounts(maxPages) == {Corrupt} \cup 0..maxPages

MergeRequest(fs, mo) ==
  [NoRequest EXCEPT !.kind = "merge", !.files = fs, !.mergeOrder = mo]

(* mergeOrder sent as a JSON string: the positions in q hold strings *)
MergeRequestJSON(fs, mo, q) ==
  [NoRequest EXCEPT !.kind = "merge", !.files = fs, !.mergeOrder = mo,
                    !.quoted = q]

MergeFiles(maxFiles, maxPages) ==
  SeqsUpTo({Corrupt} \cup 1..maxPages, maxFiles) \ {<<>>}

MergeOrders(maxFiles) == SeqsUpTo(0..maxFiles, maxFiles)

MergeTask ==
  \/ markAsProcessingSaved(1)
  \/ mergeLoadFile(1)
  \/ mergeWriteFile(1)
  \/ statOutputs(1)
  \/ markAsCompletedSaved(1)
  \/ markAsFailedSaved(1)

MergeFileInputs == MergeFiles(MaxFiles, MaxMergePages)

MergeOrderInputs == MergeOrders(MaxFiles)

(* Orders of a JSON body: negative numbers and string elements too *)
JSONOrders == SeqsUpTo((-1)..2, 2)

JSONFileInputs == MergeFiles(2, 1)

MergeNext ==
  \/ /\ Fresh(1)
     /\ \E fs \in MergeFileInputs, mo \in MergeOrderInputs :
          mergePdfs(1, MergeRequest(fs, mo))
  \/ /\ Fresh(1)
     /\ \E fs \in JSONFileInputs, mo \in JSONOrders :
          \E q \in SUBSET (DOMAIN mo) :
            mergePdfs(1, MergeRequestJSON(fs, mo, q))
  \/ MergeTask

MergeSpec == Init /\ [][MergeNext]_vars

----------------------------------------------------------------------------
(* Range tokens and split requests *)

Malformed ==
  {<<"x">>, <<"-">>, <<"1", "-">>, <<"-", "1">>, <<"1", "x">>,
   <<"1", "-", "2", "-", "3">>}

Tokens(maxPages) ==
  {ToStr(n) : n \in 0..(maxPages + 1)}
    \cup {ToStr(a) \o <<"-">> \o ToStr(b) :
            a \in 0..(maxPages + 1), b \in 0..(maxPages + 1)}
    \cup Malformed

PageRangeValues(maxPages, maxRanges) ==
  {[form |-> "absent", val |-> <<>>]}
    \cup {[form |-> "array", val |-> v] : v \in SeqsUpTo(Tokens(maxPages), maxRanges)}
    \cup {[form |-> "string", val |-> <<t>>] : t \in Tokens(maxPages)}

SplitRequest(fs, st, pr, k) ==
  [NoRequest EXCEPT !.kind = "split", !.files = fs, !.splitType = st,
                    !.pageRanges = pr, !.pagesPerFile = k]

NoPageRanges == [form |-> "absent", val |-> <<>>]

SplitFiles(maxPages) ==
  {<<>>, <<1, 1>>} \cup {<<n>> : n \in PageCounts(maxPages)}

PagesPerFileValues(maxPages) ==
  0..(maxPages + 1) \cup {MaxPagesPerFile, MaxPagesPerFile + 1}

(* A split request: by pages (or by the default, or by an unknown type), by
   size, or by range *)
SplitRequests(o, maxPages, maxRangePages, maxRanges) ==
  \/ \E fs \in SplitFiles(maxPages), st \in {"", "pages", "zip"} :
       splitPdf(o, SplitRequest(fs, st, NoPageRanges, 1))
  \/ \E n \in PageCounts(maxPages), k \in PagesPerFileValues(maxPages) :
       splitPdf(o, SplitRequest(<<n>>, "size", NoPageRanges, k))
  \/ \E n \in PageCounts(maxRangePages),
          pr \in PageRangeValues(maxRangePages, maxRanges) :
       splitPdf(o, SplitRequest(<<n>>, "range", pr, 1))

SplitTask ==
  \/ markAsProcessingSaved(1)
  \/ splitLoad(1)
  \/ splitWriteNext(1)
  \/ statOutputs(1)
  \/ markAsCompletedSaved(1)
  \/ markAsFailedSaved(1)

SplitNext ==
  \/ Fresh(1) /\ SplitRequests(1, MaxPages, MaxRangePages, MaxRanges)
  \/ SplitTask

SplitSpec == Init /\ [][SplitNext]_vars

----------------------------------------------------------------------------
(* The whole service: concurrent requests, each with its background task *)

UploadRequest(fs) == [NoRequest EXCEPT !.kind = "upload", !.files = fs]

Task(o) ==
  \/ markAsProcessingSaved(o)
  \/ mergeLoadFile(o)
  \/ mergeWriteFile(o)
  \/ splitLoad(o)
  \/ splitWriteNext(o)
  \/ statOutputs(o)
  \/ markAsCompletedSaved(o)
  \/ markAsFailedSaved(o)

Request(o) ==
  \/ \E fs \in MergeFiles(2, SysMaxPages), mo \in MergeOrders(2) :
       mergePdfs(o, MergeRequest(fs, mo))
  \/ SplitRequests(o, SysMaxPages, SysMaxPages, 1)
  \/ \E fs \in SeqsUpTo({1}, SysMaxPages) : uploadFiles(o, UploadRequest(fs))

Next == \E o \in Ops : (Fresh(o) /\ Request(o)) \/ Task(o)

Spec == Init /\ [][Next]_vars

----------------------------------------------------------------------------
(* GET /status/:operationId *)

StatusResponseMutHidesPending(record) ==
  IF ~Exists(record) \/ record.status = "pending"
  THEN [NoPoll EXCEPT !.code = 404]
  ELSE [NoPoll EXCEPT !.code = 200, !.status = record.status,
                      !.error = record.errorMessage]

(* if (operation.processing.duration): undefined and 0 are falsy *)
Truthy(duration) == duration # Null /\ duration # 0

(* getOperationStatus: 404 when findByOperationId finds nothing, else the
   status of the record, with processing.errorMessage when it is failed, the
   outputFiles when it is completed and has some, and the duration when
   that is truthy *)
StatusResponse(record) ==
  IF ~Exists(record)
  THEN [NoPoll EXCEPT !.code = 404]
  ELSE [code |-> 200, status |-> record.status,
        error |-> IF record.status = "failed" THEN record.errorMessage ELSE "",
        duration |-> IF Truthy(record.duration) THEN record.duration ELSE Null,
        outputs |-> IF record.status = "completed" /\ Len(record.outputFiles) > 0
                    THEN record.outputFiles ELSE <<>>]

(* A client polls the status of the operation of its request *)
getOperationStatus(o) ==
  /\ ServerUp
  /\ req[o] # NoRequest
  /\ polled' = [polled EXCEPT ![o] = StatusResponse(db[o])]
  /\ UNCHANGED <<req, resp, doc, db, pc, task, processed, now, aux>>

(* One operation and the polls of its status *)
PollNext ==
  \/ Fresh(1) /\ Request(1)
  \/ Task(1)
  \/ getOperationStatus(1)

PollSpec == Init /\ [][PollNext]_vars

----------------------------------------------------------------------------
(* Concurrent operations under a fair scheduler: the event loop runs the
   continuation of every settled promise *)

SmallRequest(o) ==
  \/ \E fs \in MergeFiles(2, SysMaxPages) : mergePdfs(o, MergeRequest(fs, <<>>))
  \/ \E n \in PageCounts(SysMaxPages) :
       splitPdf(o, SplitRequest(<<n>>, "pages", NoPageRanges, 1))

LiveNext == \E o \in Ops : (Fresh(o) /\ SmallRequest(o)) \/ Task(o)

LiveSpec == Init /\ [][LiveNext]_vars /\ \A o \in Ops : WF_vars(Task(o))

----------------------------------------------------------------------------
(* Round trip: a document is split into its pages and the parts are uploaded
   again, in the order of the split's outputFiles, to be merged *)

(* The identity order [0..n-1] *)
UploadOrder(n) == [i \in 1..n |-> i - 1]

(* The page counts of the parts the completed split of operation o wrote *)
PartsOf(o) ==
  [k \in DOMAIN db[o].outputFiles |-> Len(processed[db[o].outputFiles[k]])]

RoundTripNext ==
  \/ /\ Fresh(1)
     /\ \E n \in PageCounts(MaxPages) :
          splitPdf(1, SplitRequest(<<n>>, "pages", NoPageRanges, 1))
  \/ Task(1)
  \/ /\ Fresh(2)
     /\ db[1].status = "completed"
     /\ \E mo \in {<<>>, UploadOrder(Len(db[1].outputFiles))} :
          mergePdfs(2, MergeRequest(PartsOf(1), mo))
  \/ Task(2)

RoundTripSpec == Init /\ [][RoundTripNext]_vars

----------------------------------------------------------------------------
(* Properties of the merge *)

IsPermutation(order, n) == Len(order) = n /\ Range(order) = 0..(n - 1)

(* The pages of the inputs taken in the given order of 0-based indices *)
PagesInOrder(files, order) ==
  Concat([k \in 1..Len(order) |-> PagesOf(order[k], files[order[k] + 1])])

(* C1: a merge with an explicit order that is a permutation of [0,N) writes
   the pages of input order[0], then order[1], ..., then order[N-1], each
   input's pages in their original order. *)
C1_MergeFollowsExplicitOrder ==
  \A o \in Ops :
    /\ req[o].kind = "merge"
    /\ IsPermutation(req[o].mergeOrder, Len(req[o].files))
    /\ task[o].outputPaths # <<>>
    => processed[task[o].outputPaths[1]]
         = PagesInOrder(req[o].files, req[o].mergeOrder)

(* C10: a merge of N >= 2 inputs without an explicit order writes the inputs'
   pages in upload order, and as many pages as the inputs have together; the
   completed record names that one file. *)
C10_DefaultOrderIsUploadOrder ==
  \A o \in Ops :
    /\ req[o].kind = "merge"
    /\ req[o].mergeOrder = <<>>
    /\ task[o].outputPaths # <<>>
    => LET merged == processed[task[o].outputPaths[1]]
       IN  /\ Len(req[o].files) >= 2
           /\ merged = PagesInOrder(req[o].files, UploadOrder(Len(req[o].files)))
           /\ Len(merged) = SumSeq(req[o].files)
           /\ db[o].status = "completed" => db[o].outputFiles = task[o].outputPaths

C10_Witness ==
  \E o \in Ops :
    /\ req[o].kind = "merge"
    /\ req[o].mergeOrder = <<>>
    /\ req[o].files = <<1, 2, 1>>
    /\ db[o].status = "completed"
    /\ Len(processed[db[o].outputFiles[1]]) = 4

----------------------------------------------------------------------------
(* Properties of the split *)

IsSplit(o, type) == req[o].kind = "split" /\ SplitTypeOf(req[o]) = type

(* The document of the request could be loaded and has this many pages *)
TotalPages(o) == req[o].files[1]

(* The output files of operation o that are in storage *)
OutputsOf(o) == {n \in DOMAIN processed : n.op = o}

(* The token names the pages a..b: "a" with a = b, or "a-b" *)
Names(token, a, b) ==
  \/ a = b /\ token = ToStr(a)
  \/ token = ToStr(a) \o <<"-">> \o ToStr(b)

(* A valid range token of a document of total pages: one that names pages
   a..b with 1 <= a <= b <= total *)
ValidToken(token, total) ==
  \E a \in 1..total, b \in 1..total : a <= b /\ Names(token, a, b)

(* The pages a..b (1-based, inclusive) of the input, in ascending order *)
PagesFromTo(a, b) == [j \in 1..(b - a + 1) |-> <<0, a + j - 2>>]

(* C8: a range split of a list of valid tokens that completes has one output
   per listed range, in the order listed, and output i holds exactly the
   pages start_i..end_i in ascending order, overlapping or not. *)
C8_OneOutputPerRange ==
  \A o \in Ops :
    /\ IsSplit(o, "range")
    /\ req[o].pageRanges.form = "array"
    /\ db[o].status = "completed"
    => LET ranges == req[o].pageRanges.val
           outs == db[o].outputFiles
       IN  /\ Len(outs) = Len(ranges)
           /\ \A i \in DOMAIN ranges :
                \E a \in 1..TotalPages(o), b \in 1..TotalPages(o) :
                  /\ a <= b
                  /\ Names(ranges[i], a, b)
                  /\ outs[i].a = a /\ outs[i].b = b
                  /\ processed[outs[i]] = PagesFromTo(a, b)
                  /\ Len(processed[outs[i]]) = b - a + 1

C8_Witness ==
  \E o \in Ops :
    /\ IsSplit(o, "range")
    /\ req[o].pageRanges = [form |-> "array", val |-> <<<<"2">>, <<"1", "-", "2">>>>]
    /\ db[o].status = "completed"
    /\ Len(db[o].outputFiles) = 2

(* C9: a size split of T >= 1 pages with pagesPerFile k >= 1 has ceil(T/k)
   outputs; output i (0-based) holds the 0-based pages i*k up to
   min((i+1)*k, T) - 1; the last output has T - k*(ceil(T/k) - 1) pages; the
   outputs in order are the pages 0..T-1, each once. *)
C9_SizeChunks ==
  \A o \in Ops :
    /\ IsSplit(o, "size")
    /\ TotalPages(o) >= 1
    /\ task[o].outputPaths # <<>>
    /\ pc[o] \in {"stat", "completing", "done"}
    /\ doc[o].status # "failed"
    => LET T == TotalPages(o)
           k == req[o].pagesPerFile
           outs == task[o].outputPaths
           n == Len(outs)
       IN  /\ k >= 1
           /\ n * k >= T /\ (n - 1) * k < T
           /\ \A i \in 0..(n - 1) :
                processed[outs[i + 1]] =
                  [j \in 1..(Min((i + 1) * k, T) - i * k) |-> <<0, i * k + j - 1>>]
           /\ Len(processed[outs[n]]) = T - k * (n - 1)
           /\ Concat([i \in 1..n |-> processed[outs[i]]]) = PagesOf(0, T)
           /\ db[o].status = "completed" => db[o].outputFiles = outs

C9_Witness ==
  \E o \in Ops :
    /\ IsSplit(o, "size")
    /\ TotalPages(o) = 3
    /\ req[o].pagesPerFile = 2
    /\ db[o].status = "completed"
    /\ Len(db[o].outputFiles) = 2
    /\ Len(processed[db[o].outputFiles[2]]) = 1

(* The range list of the request holds a token that is not valid for the
   document: start > end, end > total, page < 1, or not a number *)
HasInvalidToken(o) ==
  \E k \in DOMAIN req[o].pageRanges.val :
    ~ValidToken(req[o].pageRanges.val[k], TotalPages(o))

(* C5: a range split whose list holds an invalid token is rejected before any
   output file is written: when it is rejected, by the request validation or
   by the parser, no output file of the operation is in storage. *)
C5_RejectedBeforeAnyWrite ==
  \A o \in Ops :
    /\ IsSplit(o, "range")
    /\ req[o].pageRanges.form = "array"
    /\ Len(req[o].files) = 1
    /\ TotalPages(o) # Corrupt
    /\ HasInvalidToken(o)
    /\ resp[o] = 400 \/ doc[o].errorMessage = InvalidRangeMessage
    => OutputsOf(o) = {}

(* C7: a range token is accepted exactly when it names pages a..b with
   1 <= a <= b <= total; a token with start = end is accepted by the request
   validation and by the parser and yields one output of one page; a token
   that is not valid never yields an output. *)
C7_TokenAcceptedIffValid ==
  \A o \in Ops :
    /\ IsSplit(o, "range")
    /\ req[o].pageRanges.form = "array"
    /\ Len(req[o].pageRanges.val) = 1
    /\ Len(req[o].files) = 1
    /\ TotalPages(o) # Corrupt
    => IF ValidToken(req[o].pageRanges.val[1], TotalPages(o))
       THEN /\ resp[o] # 400
            /\ doc[o].errorMessage # InvalidRangeMessage
            /\ db[o].status = "completed" => Len(db[o].outputFiles) = 1
       ELSE /\ OutputsOf(o) = {}
            /\ db[o].status # "completed"

----------------------------------------------------------------------------
(* Properties of the operation record and of the request validation *)

(* The request has a validation error: a wrong number of files, a bad merge
   order, a bad split option, or a range list that is missing or holds a
   token that is not valid for the document *)
ValidationError(o) ==
  LET r == req[o]
  IN  \/ r.kind = "merge" /\ Len(r.files) < 2
      \/ r.kind = "merge" /\ \E k \in DOMAIN r.mergeOrder :
           r.mergeOrder[k] < 0 \/ r.mergeOrder[k] >= Len(r.files)
      \/ r.kind = "merge" /\ \E j, k \in DOMAIN r.mergeOrder :
           j # k /\ r.mergeOrder[j] = r.mergeOrder[k]
      \/ r.kind = "split" /\ Len(r.files) # 1
      \/ r.kind = "split" /\ r.splitType \notin {"", "pages", "range", "size"}
      \/ r.kind = "split" /\ (r.pagesPerFile < 1 \/ r.pagesPerFile > MaxPagesPerFile)
      \/ /\ IsSplit(o, "range")
         /\ r.pageRanges.val = <<>>
      \/ /\ IsSplit(o, "range")
         /\ Len(r.files) = 1
         /\ TotalPages(o) # Corrupt
         /\ HasInvalidToken(o)
      \/ r.kind = "upload" /\ r.files = <<>>

(* C6: every validation error is answered to the submitting request with a
   4xx status, and then no operation record is created and no background
   task is scheduled. *)
C6_ValidationErrorsAreSynchronous ==
  \A o \in Ops :
    req[o] # NoRequest /\ ValidationError(o)
    => /\ resp[o] = 400
       /\ ~Exists(db[o])
       /\ ~Exists(doc[o])
       /\ pc[o] = "none"

Edges ==
  {<<"pending", "processing">>, <<"processing", "completed">>,
   <<"processing", "failed">>}

(* C2: a persisted record is created in pending, and every change of its
   status is one of pending -> processing, processing -> completed,
   processing -> failed. *)
C2_OnlyTheThreeEdges ==
  [][\A o \in Ops :
       /\ ~Exists(db[o]) /\ Exists(db'[o]) => db'[o].status = "pending"
       /\ Exists(db[o]) /\ db'[o].status # db[o].status
            => <<db[o].status, db'[o].status>> \in Edges]_vars

(* C3: once the status of the record a background task works on is completed
   or failed, no later step of the task changes it. *)
C3_TerminalStatusIsFinal ==
  [][\A o \in Ops :
       doc[o].status \in {"completed", "failed"}
         => doc'[o].status = doc[o].status]_vars

(* C4: the outputFiles of a record are non-empty exactly when its status is
   completed. *)
C4_OutputsIffCompleted ==
  \A o \in Ops :
    Exists(db[o]) => (db[o].outputFiles # <<>> <=> db[o].status = "completed")

----------------------------------------------------------------------------
(* Properties of the merge order validation *)

(* The explicit order of the request names an index outside [0,N) or names
   the same index twice *)
BadMergeOrder(o) ==
  LET mo == req[o].mergeOrder
  IN  \/ \E k \in DOMAIN mo : mo[k] < 0 \/ mo[k] >= Len(req[o].files)
      \/ \E j, k \in DOMAIN mo : j # k /\ mo[j] = mo[k]

(* C11: a merge request whose explicit order has an index outside [0,N) or
   the same index twice is answered 4xx, and no record is created and no
   merge task is started for it. *)
C11_BadMergeOrderRejected ==
  \A o \in Ops :
    req[o].kind = "merge" /\ BadMergeOrder(o)
    => /\ resp[o] = 400
       /\ ~Exists(db[o])
       /\ ~Exists(doc[o])
       /\ pc[o] = "none"

----------------------------------------------------------------------------
(* Properties of a merge with an input that cannot be loaded *)

(* The files the merge reads: the resolved order of the request *)
ResolvedFiles(o) ==
  OrderedFiles(InputFiles(Len(req[o].files), req[o].mergeOrder, req[o].quoted),
               req[o].mergeOrder)

(* The files of operation o in storage *)
OutputsOfOperation(o) == {n \in DOMAIN processed : n.op = o}

(* The merged files of operation o in storage *)
MergedOutputsOf(o) ==
  {n \in DOMAIN processed : n.kind = "merged" /\ n.op = o}

HasUnloadableInput(o) ==
  \E k \in DOMAIN ResolvedFiles(o) :
    req[o].files[ResolvedFiles(o)[k].idx + 1] = Corrupt

(* C12: a merge with an input that cannot be read or parsed fails as a whole
   and writes no merged file; a merged file is in storage only after every
   input of the resolved order has been loaded and copied. *)
C12_NoMergedFileUnlessAllLoaded ==
  \A o \in Ops :
    req[o].kind = "merge" /\ resp[o] = 202
    => /\ HasUnloadableInput(o)
            => MergedOutputsOf(o) = {} /\ doc[o].status # "completed"
       /\ MergedOutputsOf(o) # {}
            => /\ task[o].i = Len(ResolvedFiles(o))
               /\ \A n \in MergedOutputsOf(o) :
                    Len(processed[n]) =
                      SumSeq([k \in DOMAIN ResolvedFiles(o) |->
                                req[o].files[ResolvedFiles(o)[k].idx + 1]])

(* A merge failed on its second file, after the first one was loaded and
   copied, and nothing was written *)
C12_Witness ==
  /\ req[1].kind = "merge"
  /\ HasUnloadableInput(1)
  /\ task[1].i = 1
  /\ db[1].status = "failed"
  /\ db[1].errorMessage = "Failed to merge PDFs: load"
  /\ MergedOutputsOf(1) = {}

----------------------------------------------------------------------------
(* Properties of the background tasks *)

(* The messages of the errors that loading, range parsing, serialization and
   writing raise inside mergePdfFiles and splitPdfFile *)
ProcessingErrors ==
  {"Failed to merge PDFs: load", "Failed to merge PDFs: write",
   "Failed to split PDF: load", "Failed to split PDF: write",
   "Failed to split PDF: Page ranges must be provided", InvalidRangeMessage}

(* The task of operation o is over: it returned or its promise rejected *)
TaskOver(o) == pc[o] \in {"done", "escaped"}

(* C13: when loading, range parsing, serialization or writing raises in a
   background task, the record ends failed with that error's message, a later
   status poll returns failed with that message, and the request keeps its
   202 answer. *)
C13_ProcessingErrorsEndFailed ==
  \A o \in Ops :
    /\ TaskOver(o) /\ doc[o].errorMessage \in ProcessingErrors
         => /\ db[o].status = "failed"
            /\ db[o].errorMessage = doc[o].errorMessage
            /\ StatusResponse(db[o]).status = "failed"
            /\ StatusResponse(db[o]).error = doc[o].errorMessage
            /\ resp[o] = 202
    /\ polled[o].status = "failed" => polled[o].error = db[o].errorMessage

(* C14: no exception raised inside a background task escapes it: the promise
   of processMergeOperation / processSplitOperation never rejects. *)
C14_NothingEscapesTheTask ==
  \A o \in Ops : pc[o] # "escaped"

(* C15: every record created in pending eventually reaches completed or
   failed. *)
C15_EveryRecordEnds ==
  \A o \in Ops :
    Exists(db[o]) ~> db[o].status \in {"completed", "failed"}

Rank(status) ==
  IF status = "pending" THEN 0 ELSE IF status = "processing" THEN 1 ELSE 2

(* C16: the statuses that successive polls of one operation return never move
   backward in pending < processing < {completed, failed}, and a terminal
   status is never followed by another one. *)
C16_PollsNeverMoveBackward ==
  [][\A o \in Ops :
       polled[o].code = 200 /\ polled'[o].code = 200
         => /\ Rank(polled'[o].status) >= Rank(polled[o].status)
            /\ Rank(polled[o].status) = 2
                 => polled'[o].status = polled[o].status]_vars

(* A poll answered processing and a later poll answered failed *)
C16_Witness ==
  /\ polled[1].status = "processing"
  /\ db[1].status = "failed"
  /\ ENABLED getOperationStatus(1)

(* C17: an accepted merge or split request has its record persisted before
   its task starts and before it is acknowledged; the acknowledgement comes
   before the task's first PDF read and before its terminal transition, and a
   status poll issued after it finds the record. *)
C17_RecordBeforeTaskAndAck ==
  \A o \in Ops :
    /\ resp[o] = 202 => Exists(db[o])
    /\ pc[o] # "none" => resp[o] = 202 /\ Exists(db[o])
    /\ resp[o] = 202 /\ pc[o] = "marking"
         => /\ db[o].status = "pending"
            /\ task[o] = NoTask
            /\ OutputsOfOperation(o) = {}
    /\ resp[o] = 202 /\ polled[o].code # 0 => polled[o].code = 200

(* A poll issued right after the acknowledgement found the pending record *)
C17_Witness ==
  /\ resp[1] = 202
  /\ pc[1] = "marking"
  /\ polled[1].code = 200
  /\ polled[1].status = "pending"

----------------------------------------------------------------------------
(* Properties of the operationId *)

(* The document operation o built in memory has the operationId of a record
   another operation has stored *)
CreatesDuplicate(o) ==
  \E p \in Ops \ {o} :
    Exists(db[p]) /\ db[p].operationId = doc[o].operationId

(* C18: creating a record whose operationId a stored record already has is
   rejected and leaves the stored records unchanged; no two stored records
   share an operationId. *)
C18_OperationIdsAreUnique ==
  /\ [](\A o, p \in Ops :
          o # p /\ Exists(db[o]) /\ Exists(db[p])
            => db[o].operationId # db[p].operationId)
  /\ [][\A o \in Ops :
          ~Exists(doc[o]) /\ Exists(doc'[o])
            /\ (\E p \in Ops \ {o} :
                  Exists(db[p]) /\ db[p].operationId = doc'[o].operationId)
          => db' = db /\ resp'[o] >= 400]_vars

(* The second request drew the operationId of the first and was refused *)
C18_Witness ==
  /\ Exists(db[1])
  /\ Exists(doc[2])
  /\ CreatesDuplicate(2)
  /\ ~Exists(db[2])
  /\ resp[2] = 400

----------------------------------------------------------------------------
(* Properties of the transitions of the record and of the output names *)

(* C19: markAsProcessing changes a record only when its status is pending,
   markAsCompleted and markAsFailed only when it is processing; otherwise the
   call fails and the status, the outputFiles and the processing fields of
   the record stay as they were. *)
C19_TransitionsCheckTheStatus ==
  [][\A o \in Ops :
       Exists(doc[o]) /\ doc'[o] # doc[o]
         => \/ doc[o].status = "pending" /\ doc'[o].status = "processing"
            \/ doc[o].status = "processing"
                 /\ doc'[o].status \in {"completed", "failed"}]_vars

(* C20: no output is written under a name that an output already in storage
   has, within one split and across operations, so no output file is
   overwritten. *)
C20_NoOutputOverwritten ==
  [][\A n \in DOMAIN processed :
       n \in DOMAIN processed' /\ processed'[n] = processed[n]
         /\ \A o \in Ops :
              Len(task'[o].outputPaths) > Len(task[o].outputPaths)
                => task'[o].outputPaths[Len(task'[o].outputPaths)] # n]_vars

----------------------------------------------------------------------------
(* Properties of the output file names *)

(* C21: the name of an output file is a function of the operationId and of
   the suffix (ordinal or range label) alone: an execution at any other clock
   reading gives the same output the same name; and every name contains the
   operationId of its operation. *)
C21_NamesDependOnIdAndSuffixOnly ==
  \A o \in Ops :
    \A k \in DOMAIN task[o].outputPaths :
      LET n == task[o].outputPaths[k]
      IN  /\ n.op = doc[o].operationId
          /\ \A t \in 0..MaxClock : FileName(n.kind, n.op, n.a, n.b, t) = n

----------------------------------------------------------------------------
(* Properties of the round trip *)

(* Page k of the merged file of operation 2, traced through the part it was
   uploaded from to the page of the document operation 1 split *)
OriginalPages(merged) ==
  [k \in DOMAIN merged |->
     processed[db[1].outputFiles[merged[k][1] + 1]][merged[k][2] + 1]]

(* C22: a document of T >= 2 pages split with the pages strategy and merged
   again from its T parts in their order, by the default order or by the
   explicit order [0..T-1], gives a document of the same T pages in the
   original order. *)
C22_SplitThenMergeRoundTrip ==
  /\ req[1].kind = "split" /\ req[2].kind = "merge"
  /\ task[2].outputPaths # <<>>
  => /\ Len(req[2].files) = req[1].files[1]
     /\ OriginalPages(processed[task[2].outputPaths[1]])
          = PagesOf(0, req[1].files[1])

(* Three pages were split and merged again by the explicit order [0,1,2] *)
C22_Witness ==
  /\ req[1].kind = "split" /\ req[1].files = <<3>>
  /\ req[2].mergeOrder = <<0, 1, 2>>
  /\ db[2].status = "completed"
  /\ Len(processed[db[2].outputFiles[1]]) = 3

----------------------------------------------------------------------------
(* Properties of the status poll *)

(* C23: a poll of a stored record answers its status, the error message
   exactly when the status is failed, the duration whenever the record has
   one (0 too), and for a completed record one entry per output file; a poll
   of an unknown operationId answers not found. *)
C23_PollAnswersTheRecord ==
  [][\A o \in Ops :
       polled'[o] # polled[o]
         => IF ~Exists(db[o]) THEN polled'[o].code = 404
            ELSE /\ polled'[o].code = 200
                 /\ polled'[o].status = db[o].status
                 /\ polled'[o].error # "" <=> db[o].status = "failed"
                 /\ db[o].status = "failed"
                      => polled'[o].error = db[o].errorMessage
                 /\ db[o].duration # Null
                      => polled'[o].duration = db[o].duration
                 /\ db[o].status = "completed"
                      => polled'[o].outputs = db[o].outputFiles]_vars

----------------------------------------------------------------------------
(* Properties of the upload, and of the order and the frame of the task *)

(* C25: an upload request with at least one file stores a record of type
   upload and is answered with success; it is never refused as invalid. *)
C25_UploadRecordIsAccepted ==
  \A o \in Ops :
    req[o].kind = "upload" /\ Len(req[o].files) >= 1
    => /\ resp[o] # 400
       /\ resp[o] = 200
            => Exists(db[o]) /\ db[o].operationType = "upload"

(* The steps of a task between the save of markAsProcessing and the call of
   markAsCompleted or markAsFailed: reads, loads, writes and stats *)
InTransformer(o) == pc[o] \in {"merging", "splitLoad", "splitting", "stat"}

(* C27: the stored record is processing during every read, write and stat of
   the task, so pending -> processing is recorded before the first of them,
   and a terminal status is recorded only when the task has done its last. *)
C27_TransitionsBracketTheIO ==
  \A o \in Ops :
    /\ InTransformer(o) => db[o].status = "processing"
    /\ task[o].i > 0 \/ task[o].outputPaths # <<>>
         => db[o].status # "pending"
    /\ Exists(db[o]) /\ db[o].status \in {"completed", "failed"}
         => pc[o] = "done"

(* A split wrote its output under a record in processing and was then
   recorded completed *)
C27_Witness ==
  /\ db[1].status = "completed"
  /\ db[1].operationType = "split"
  /\ db[1].outputFiles # <<>>
  /\ pc[1] = "done"

(* How far the task of an operation has come *)
Phase(p) ==
  IF p = "none" THEN 0
  ELSE IF p = "marking" THEN 1
  ELSE IF p \in {"merging", "splitLoad", "splitting", "stat"} THEN 2
  ELSE IF p = "completing" THEN 3
  ELSE IF p = "failing" THEN 4
  ELSE 5

(* C28: an accepted merge or split request starts exactly one task; the task
   enters the transformer at most once, records at most one terminal status,
   and never starts again after a failure. *)
C28_TaskRunsOnce ==
  /\ [](\A o \in Ops : (resp[o] = 202) <=> (pc[o] # "none"))
  /\ [][\A o \in Ops :
          /\ Phase(pc'[o]) >= Phase(pc[o])
          /\ db[o].status \in {"completed", "failed"} => db'[o] = db[o]]_vars

(* A task failed in the transformer, recorded failed and stopped *)
C28_Witness ==
  /\ resp[1] = 202
  /\ pc[1] = "done"
  /\ db[1].status = "failed"
  /\ db[1].errorMessage \in ProcessingErrors

(* C29: the duration of a record is set only when its endTime is set and is
   endTime - startTime of that record; startTime is set before endTime. *)
C29_DurationIsEndMinusStart ==
  \A o \in Ops :
    /\ Exists(db[o]) /\ db[o].duration # Null
         => /\ db[o].endTime # Null
            /\ db[o].duration = db[o].endTime - db[o].startTime
    /\ Exists(db[o]) /\ db[o].endTime # Null => db[o].startTime # Null

(* C30: once a record is stored, its operationId, operationType, inputFiles
   and metadata never change, and its outputFiles are assigned at most once,
   in the step that sets its status to completed. *)
C30_FrameOfTheRecord ==
  [][\A o \in Ops :
       Exists(db[o])
         => /\ db'[o].operationId = db[o].operationId
            /\ db'[o].operationType = db[o].operationType
            /\ db'[o].inputFiles = db[o].inputFiles
            /\ db'[o].metadata = db[o].metadata
            /\ db'[o].outputFiles # db[o].outputFiles
                 => /\ db[o].outputFiles = <<>>
                    /\ db[o].status # "completed"
                    /\ db'[o].status = "completed"]_vars

----------------------------------------------------------------------------
(* The periodic sweep: cleanupFiles (utils/fileCleanup.js), started by the
   server's setInterval *)

(* config.tempFileLifetime, in hours, and maxAge, in milliseconds *)
TempFileLifetime == 2

MaxAge == TempFileLifetime * 60 * 60 * 1000

(* The directories array: uploads, processed, temp *)
Directories == 1..3

(* File names in one directory, last-modified times, and the values of
   Date.now() at the start of a sweep: ages of exactly maxAge, of more and of
   less all occur *)
SweepNames == 1..2

Mtimes == {0, 1, MaxAge + 1}

SweepNows == {MaxAge + 1, MaxAge + 2}

MaxSweepFiles == 3

FilesStored == SumSeq([d \in Directories |-> Cardinality(DOMAIN store[d])])

(* now - stats.mtime.getTime() > maxAge *)
ExpiredMutAtLimit(t, mtime) == t - mtime >= MaxAge

Expired(t, mtime) == t - mtime > MaxAge

(* fs.unlink(filePath) *)
Unlink(dir, name) == [n \in DOMAIN dir \ {name} |-> dir[n]]

(* The end of one turn of the loop over the directories *)
NextDirectory(s) ==
  IF s.dir = 3 THEN [s EXCEPT !.pc = "done", !.files = {}, !.outputs = {}]
  ELSE [s EXCEPT !.pc = "readdir", !.dir = @ + 1, !.files = {},
                 !.outputs = {}]

(* The end of one turn of the loop over the files of a directory *)
NextFile(s, f) ==
  IF s.files = {f} /\ s.outputs = {} THEN NextDirectory(s)
  ELSE [s EXCEPT !.files = @ \ {f}]

(* A file is written to one of the directories while no sweep runs *)
touch(d, f, mtime) ==
  /\ sweep.pc = "idle"
  /\ f \notin DOMAIN store[d]
  /\ FilesStored < MaxSweepFiles
  /\ store' = [store EXCEPT ![d] =
                 [n \in DOMAIN store[d] \cup {f} |->
                    IF n = f THEN mtime ELSE store[d][n]]]
  /\ UNCHANGED <<req, resp, doc, db, pc, task, processed, now, polled,
                 listing, sweep, served>>

(* The timer fires: maxAge and now are read once, before the loops *)
cleanupFiles(t) ==
  /\ sweep.pc \in {"idle", "done"}
  /\ sweep' = [pc |-> "readdir", now |-> t, dir |-> 1, files |-> {},
               outputs |-> {}, before |-> store, removed |-> {},
               skipped |-> {}, unlisted |-> {}]
  /\ UNCHANGED <<req, resp, doc, db, pc, task, processed, now, polled,
                 listing, store, served>>

(* The directory 'processed', where mergePdfFiles and splitPdfFile write *)
ProcessedDirectory == 2

(* The output files of the operations that directory d holds *)
OutputsIn(d) == IF d = ProcessedDirectory THEN DOMAIN processed ELSE {}

(* fs.readdir(directory) answers, or throws into the directory's catch *)
readdir ==
  /\ sweep.pc = "readdir"
  /\ \/ sweep' = IF DOMAIN store[sweep.dir] = {} /\ OutputsIn(sweep.dir) = {}
                 THEN NextDirectory(sweep)
                 ELSE [sweep EXCEPT !.pc = "files",
                                    !.files = DOMAIN store[sweep.dir],
                                    !.outputs = OutputsIn(sweep.dir)]
     \/ sweep' = NextDirectory([sweep EXCEPT !.unlisted = @ \cup {sweep.dir}])
  /\ UNCHANGED <<req, resp, doc, db, pc, task, processed, now, polled,
                 listing, store, served>>

(* One turn of the loop over the files: stat, the age test, unlink; a throw of
   stat or of unlink lands in the file's catch *)
examine(f) ==
  /\ sweep.pc = "files"
  /\ f \in sweep.files
  /\ LET d == sweep.dir
         failed == NextFile([sweep EXCEPT !.skipped = @ \cup {<<d, f>>}], f)
     IN  \/ /\ sweep' = failed
            /\ store' = store
         \/ IF Expired(sweep.now, store[d][f])
            THEN \/ /\ store' = [store EXCEPT ![d] = Unlink(store[d], f)]
                    /\ sweep' = NextFile([sweep EXCEPT
                                            !.removed = @ \cup {<<d, f>>}], f)
                 \/ /\ sweep' = failed
                    /\ store' = store
            ELSE /\ sweep' = NextFile(sweep, f)
                 /\ store' = store
  /\ UNCHANGED <<req, resp, doc, db, pc, task, processed, now, polled,
                 listing, served>>

SweepNext ==
  \/ \E d \in Directories, f \in SweepNames, m \in Mtimes : touch(d, f, m)
  \/ \E t \in SweepNows : cleanupFiles(t)
  \/ readdir
  \/ \E f \in SweepNames : examine(f)

SweepSpec == Init /\ [][SweepNext]_vars

(* The age the sweep sees of a file that existed when it started *)
Age(d, f) == sweep.now - sweep.before[d][f]

(* C26: a failure to list one directory or to examine or delete one file is
   skipped and never ends the sweep: every sweep that has finished has deleted
   every file that was older than the maximum age at its start, except those
   whose own stat or unlink failed and those of a directory whose listing
   failed; and at every moment the only files missing are files the sweep
   deleted, each of them older than the maximum age *)
C26_SweepSkipsFailuresAndKeepsYoungFiles ==
  /\ \A e \in sweep.removed : Age(e[1], e[2]) > MaxAge
  /\ \A d \in Directories : \A f \in DOMAIN sweep.before[d] :
       /\ f \notin DOMAIN store[d] => <<d, f>> \in sweep.removed
       /\ (/\ sweep.pc = "done"
           /\ d \notin sweep.unlisted
           /\ <<d, f>> \notin sweep.skipped
           /\ Age(d, f) > MaxAge) => f \notin DOMAIN store[d]

(* C26: a finished sweep in which a directory could not be listed and a file
   could not be examined, after which an old file was still deleted and a file
   within the maximum age was kept *)
C26_Witness ==
  /\ sweep.pc = "done"
  /\ \E u \in sweep.unlisted, k \in sweep.skipped, e \in sweep.removed :
       /\ u < e[1]
       /\ k[1] = e[1]
  /\ \E d \in Directories : \E f \in DOMAIN store[d] :
       /\ f \in DOMAIN sweep.before[d]
       /\ d \notin sweep.unlisted
       /\ <<d, f>> \notin sweep.skipped
       /\ Age(d, f) = MaxAge

----------------------------------------------------------------------------
(* GET /history: getOperationHistory.  A client reads a listing page after
   page, with one filter and one page size *)

MaxListing == 2

(* req.query.status and req.query.operationType; "" is the absent parameter,
   which if (status) and if (operationType) leave out of the filter *)
HistoryStatuses == {"", "completed"}

HistoryTypes == {"", "merge"}

HistoryLimits == 1..2

Query(status, type, limit) == [status |-> status, type |-> type, limit |-> limit]

(* PdfOperation.find(filter) and countDocuments(filter): the stored records
   the filter selects *)
Matching(q) ==
  {o \in Ops : /\ Exists(db[o])
               /\ q.status = "" \/ db[o].status = q.status
               /\ q.type = "" \/ db[o].operationType = q.type}

(* .sort({ createdAt: -1 }): the records in descending order of createdAt;
   the database fixes no order among records of equal createdAt, and a second
   query may return them in another order *)
SortMutAscending(S) ==
  {s \in [1..Cardinality(S) -> S] :
     /\ \A i, j \in DOMAIN s : i # j => s[i] # s[j]
     /\ \A i, j \in DOMAIN s : i < j => db[s[i]].createdAt <= db[s[j]].createdAt}

Sort(S) ==
  {s \in [1..Cardinality(S) -> S] :
     /\ \A i, j \in DOMAIN s : i # j => s[i] # s[j]
     /\ \A i, j \in DOMAIN s : i < j => db[s[i]].createdAt >= db[s[j]].createdAt}

(* .limit(limit * 1).skip((page - 1) * limit) *)
SkipLimit(s, skip, limit) == SubSeq(s, skip + 1, Min(skip + limit, Len(s)))

(* Math.ceil(total / limit) *)
Ceil(total, limit) == (total + limit - 1) \div limit

(* The handler up to its second await: find(...).sort(...).limit(...).skip(...)
   has answered and countDocuments is under way.  The client asks for page 1,
   then for the next page of the same listing *)
historyFind(q) ==
  /\ ServerUp
  /\ Len(listing) < MaxListing
  /\ listing # <<>> =>
       /\ listing[Len(listing)].total # Null
       /\ q = listing[1].query
  /\ LET page == Len(listing) + 1
     IN  \E s \in Sort(Matching(q)) :
           listing' = Append(listing,
             [query |-> q, page |-> page, limit |-> q.limit,
              operations |-> SkipLimit(s, (page - 1) * q.limit, q.limit),
              total |-> Null, pages |-> Null,
              records |-> {o \in Ops : Exists(db[o])},
              counted |-> {}, matching |-> Matching(q)])
  /\ UNCHANGED <<req, resp, doc, db, pc, task, processed, now, polled,
                 store, sweep, served>>

(* countDocuments answers and the response is sent *)
historyCount ==
  /\ ServerUp
  /\ listing # <<>>
  /\ listing[Len(listing)].total = Null
  /\ LET q == listing[1].query
         total == Cardinality(Matching(q))
     IN  listing' = [listing EXCEPT ![Len(listing)] =
                       [@ EXCEPT !.total = total,
                                 !.pages = Ceil(total, q.limit),
                                 !.counted = {o \in Ops : Exists(db[o])},
                                 !.matching = Matching(q)]]
  /\ UNCHANGED <<req, resp, doc, db, pc, task, processed, now, polled,
                 store, sweep, served>>

getOperationHistory ==
  \/ \E st \in HistoryStatuses, ty \in HistoryTypes, l \in HistoryLimits :
       historyFind(Query(st, ty, l))
  \/ historyCount

HistoryRequest(o) ==
  \/ mergePdfs(o, MergeRequest(<<1, 1>>, <<>>))
  \/ splitPdf(o, SplitRequest(<<1>>, "pages", NoPageRanges, 1))

HistoryNext ==
  \/ \E o \in Ops : (Fresh(o) /\ HistoryRequest(o)) \/ Task(o)
  \/ getOperationHistory

HistorySpec == Init /\ [][HistoryNext]_vars

(* The responses sent so far *)
Answered == {k \in DOMAIN listing : listing[k].total # Null}

(* One page on its own: at most limit records, in descending order of
   createdAt, with the page number, the page size, the total and
   ceil(total / limit) *)
PageIsWellFormed(r) ==
  /\ Len(r.operations) <= r.limit
  /\ \A i, j \in DOMAIN r.operations :
       i < j => db[r.operations[i]].createdAt >= db[r.operations[j]].createdAt
  /\ r.pages = Ceil(r.total, r.limit)
  /\ r.limit = r.query.limit

PagesAreWellFormed == \A k \in Answered : PageIsWellFormed(listing[k])

(* The records of all the pages read, in the order read *)
Listed == Concat([k \in DOMAIN listing |-> listing[k].operations])

(* C24: every page of the listing holds at most s records in descending order
   of creation time with its pagination metadata, and when no record was
   created while the client read pages 1..ceil(total/s), the pages together
   hold every matching record exactly once *)
C24_PagesHoldEveryRecordOnce ==
  /\ PagesAreWellFormed
  /\ (/\ listing # <<>>
      /\ Answered = DOMAIN listing
      /\ Len(listing) = listing[Len(listing)].pages
      /\ \A k \in DOMAIN listing :
           /\ listing[k].records = listing[1].records
           /\ listing[k].counted = listing[1].records)
     => \A o \in listing[Len(listing)].matching :
          Cardinality({i \in DOMAIN Listed : Listed[i] = o}) = 1

(* The same holds no better for listings read while no two records share a
   creation time *)
EveryRecordOnceWithoutTies ==
  (\A o, p \in Ops : (o # p /\ Exists(db[o]) /\ Exists(db[p]))
                        => db[o].createdAt # db[p].createdAt)
  => C24_PagesHoldEveryRecordOnce

----------------------------------------------------------------------------
(* The plan the split task executes and the plan the record holds *)

(* The range splits that were accepted *)
RangeSplits ==
  {o \in Ops : /\ pc[o] # "none"
               /\ req[o].kind = "split"
               /\ SplitTypeOf(req[o]) = "range"}

(* The k-th file the task wrote is the range the k-th element of
   metadata.splitOptions.pageRanges names *)
WrittenAsRecorded(o, k) ==
  /\ k \in DOMAIN db[o].metadata.pageRanges
  /\ LET parsed == parsePageRange(db[o].metadata.pageRanges[k], task[o].total)
         name == task[o].outputPaths[k]
     IN  /\ parsed.ok
         /\ name.a = parsed.startPage
         /\ name.b = parsed.endPage

(* C32: the task of a range split executes the plan of the record: every file
   it writes is the range of the element of metadata.splitOptions.pageRanges
   at the same position, also when pageRanges was sent as one token *)
C32_TaskExecutesTheRecordedPlan ==
  \A o \in RangeSplits : \A k \in DOMAIN task[o].outputPaths :
    WrittenAsRecorded(o, k)

----------------------------------------------------------------------------
(* Split by pages and split by size with one page per file *)

(* The completed splits by pages, and by size with pagesPerFile = 1 *)
PerPageSplits ==
  {o \in Ops : /\ req[o].kind = "split"
               /\ db[o].status = "completed"
               /\ \/ SplitTypeOf(req[o]) = "pages"
                  \/ SplitTypeOf(req[o]) = "size" /\ req[o].pagesPerFile = 1}

(* C31: a split by pages and a split by size with pagesPerFile = 1 take the
   same number of turns and copy the same pages in every turn, and each of
   them, once completed on a document of T pages, has T outputs of which the
   i-th holds exactly page i *)
C31_PagesIsSizeOne ==
  /\ \A T \in 0..MaxPages :
       /\ NumberOfOutputs("pages", NoPageRanges, 1, T)
            = NumberOfOutputs("size", NoPageRanges, 1, T)
       /\ \A i \in 0..(T - 1) :
            SplitOutput("pages", NoPageRanges, 1, T, i).pages
              = SplitOutput("size", NoPageRanges, 1, T, i).pages
  /\ \A o \in PerPageSplits :
       /\ Len(db[o].outputFiles) = task[o].total
       /\ \A i \in DOMAIN db[o].outputFiles :
            processed[db[o].outputFiles[i]] = <<<<0, i - 1>>>>

(* C31: a completed split by size with pagesPerFile = 1 of a document of the
   largest size *)
C31_Witness ==
  \E o \in PerPageSplits :
    /\ SplitTypeOf(req[o]) = "size"
    /\ task[o].total = MaxPages
    /\ Len(db[o].outputFiles) = MaxPages

----------------------------------------------------------------------------
(* The acknowledgement of a merge or split request *)

(* res.status(202).json({ ..., data: { operationId, status: 'processing',
   ... } }) *)
AckStatus == "processing"

(* C33: no poll answered after the 202 reports a status earlier in the
   lifecycle than the status the 202 carried *)
C33_AckIsNotAheadOfTheRecord ==
  \A o \in Ops :
    (resp[o] = 202 /\ polled[o].code = 200)
      => Rank(polled[o].status) >= Rank(AckStatus)

----------------------------------------------------------------------------
(* The inputs of a completed merge *)

(* How often page j of input f occurs in a written document *)
Occurrences(pages, f, j) ==
  Cardinality({i \in DOMAIN pages : pages[i] = <<f, j>>})

(* C34: the document of a completed merge holds every page of every uploaded
   input exactly once, whatever accepted merge order the request carried *)
C34_CompletedMergeHoldsEveryInput ==
  \A o \in Ops :
    (req[o].kind = "merge" /\ db[o].status = "completed")
      => \A f \in DOMAIN req[o].files : \A j \in 0..(req[o].files[f] - 1) :
           Occurrences(processed[db[o].outputFiles[1]], f - 1, j) = 1

----------------------------------------------------------------------------
(* The routes that send files: GET /download/:filename,
   /download-operation/:operationId, /preview-operation/:operationId,
   /bulk-download/:operationId, the static route /processed, and the paths
   no route is registered for *)

(* The name multer gives the i-th file of request o in the directory uploads *)
InputName(o, i) == FileName("upload", o, i, 0, 0)

InputNames(o) == {InputName(o, i) : i \in 1..Len(req[o].files)}

(* throw new AppError(message, code) *)
Refuse(a, code, message) == [a EXCEPT !.code = code, !.message = message]

(* res.download(filePath) and res.sendFile(filePath) *)
Send(a, file) == [a EXCEPT !.code = 200, !.file = file]

(* downloadFile: the file of that name in the directory processed *)
DownloadFile(filename) ==
  LET a == [NoAnswer EXCEPT !.route = "download", !.wanted = filename]
  IN  IF filename \in DOMAIN processed THEN Send(a, filename)
      ELSE Refuse(a, 404, "File not found")

(* app.use('/processed', express.static(...)) *)
StaticProcessed(filename) ==
  LET a == [NoAnswer EXCEPT !.route = "static", !.wanted = filename]
  IN  IF filename \in DOMAIN processed THEN Send(a, filename)
      ELSE Refuse(a, 404, "Route not found")

(* app.use('*'): the router has no route /preview/:filename *)
PreviewFile(filename) ==
  Refuse([NoAnswer EXCEPT !.route = "preview", !.wanted = filename],
         404, "Route not found")

(* The checks the three operation routes start with *)
RefusedOperation(a, record) ==
  IF ~Exists(record) THEN Refuse(a, 404, "Operation not found")
  ELSE IF record.status # "completed"
       THEN Refuse(a, 400, "Operation not completed yet")
       ELSE IF Len(record.outputFiles) = 0
            THEN Refuse(a, 404, "No output files available")
            ELSE a

(* downloadOperationResult: one output file is sent, several are listed *)
DownloadOperationResult(o, record) ==
  LET a == [NoAnswer EXCEPT !.route = "download-operation", !.op = o]
      refused == RefusedOperation(a, record)
  IN  IF refused # a THEN refused
      ELSE IF Len(record.outputFiles) = 1
           THEN IF record.outputFiles[1] \in DOMAIN processed
                THEN Send(a, record.outputFiles[1])
                ELSE Refuse(a, 404, "Output file not found")
           ELSE [a EXCEPT !.code = 200]

(* parseInt of a query parameter: an optional minus sign, then digits *)
ParseIntSigned(s) ==
  IF s # <<>> /\ Head(s) = "-"
  THEN [nan |-> IsNaN(ParseInt(Tail(s))), val |-> 0 - ParseInt(Tail(s))]
  ELSE [nan |-> IsNaN(ParseInt(s)), val |-> ParseInt(s)]

(* const { fileIndex = 0 } = req.query; parseInt(fileIndex) *)
FileIdx(fileIndex) ==
  IF fileIndex = <<>> THEN [nan |-> FALSE, val |-> 0]
  ELSE ParseIntSigned(fileIndex)

(* previewOperationResult: NaN >= n and a negative number >= n are false,
   outputFiles[fileIdx] is then undefined and outputFile.filename throws a
   TypeError, which the error handler answers with 500 *)
PreviewOperationResult(o, record, fileIndex) ==
  LET a == [NoAnswer EXCEPT !.route = "preview-operation", !.op = o,
                            !.arg = fileIndex]
      refused == RefusedOperation(a, record)
      fileIdx == FileIdx(fileIndex)
  IN  IF refused # a THEN refused
      ELSE IF ~fileIdx.nan /\ fileIdx.val >= Len(record.outputFiles)
           THEN Refuse(a, 400, "File index out of range")
           ELSE IF fileIdx.nan \/ fileIdx.val < 0
                THEN Refuse(a, 500, "TypeError")
                ELSE LET outputFile == record.outputFiles[fileIdx.val + 1]
                     IN  IF outputFile \in DOMAIN processed
                         THEN Send(a, outputFile)
                         ELSE Refuse(a, 404, "Output file not found for preview")

(* bulkDownload: one output file is a redirect to /api/pdf/download/<name>;
   for several, require is not defined in an ES module and the handler
   throws a ReferenceError *)
BulkDownload(o, record) ==
  LET a == [NoAnswer EXCEPT !.route = "bulk-download", !.op = o]
      refused == RefusedOperation(a, record)
  IN  IF refused # a THEN refused
      ELSE IF Len(record.outputFiles) = 1
           THEN [a EXCEPT !.code = 302, !.wanted = record.outputFiles[1]]
           ELSE Refuse(a, 500, "ReferenceError")

(* The file names a client may ask for: the output files written so far and
   the input files of the requests *)
RequestedNames == DOMAIN processed \cup UNION {InputNames(o) : o \in Ops}

FileIndexValues ==
  {<<>>, <<"-", "1">>, <<"x">>} \cup {ToStr(n) : n \in 0..MaxPages}

Answers(a) ==
  /\ ServerUp
  /\ served' = a
  /\ UNCHANGED <<req, resp, doc, db, pc, task, processed, now, polled,
                 listing, store, sweep>>

downloadFile(filename) == Answers(DownloadFile(filename))

staticProcessed(filename) == Answers(StaticProcessed(filename))

previewFile(filename) == Answers(PreviewFile(filename))

downloadOperationResult(o) == Answers(DownloadOperationResult(o, db[o]))

previewOperationResult(o, fileIndex) ==
  Answers(PreviewOperationResult(o, db[o], fileIndex))

bulkDownload(o) == Answers(BulkDownload(o, db[o]))

(* One operation, the polls of its status and the requests for its files *)
ServeRequest(o) ==
  \/ \E fs \in {<<1, 1>>, <<Corrupt, 1>>} : mergePdfs(o, MergeRequest(fs, <<>>))
  \/ \E n \in 1..MaxPages :
       splitPdf(o, SplitRequest(<<n>>, "pages", NoPageRanges, 1))

ServeNext ==
  \/ Fresh(1) /\ ServeRequest(1)
  \/ Task(1)
  \/ getOperationStatus(1)
  \/ \E filename \in RequestedNames : downloadFile(filename)
  \/ \E filename \in RequestedNames : staticProcessed(filename)
  \/ \E filename \in RequestedNames : previewFile(filename)
  \/ downloadOperationResult(1)
  \/ \E fileIndex \in FileIndexValues : previewOperationResult(1, fileIndex)
  \/ bulkDownload(1)

ServeSpec == Init /\ [][ServeNext]_vars

----------------------------------------------------------------------------
(* What the routes send *)

OperationRoutes == {"download-operation", "preview-operation", "bulk-download"}

(* C35: download-operation, preview-operation and bulk-download answer 4xx
   for an operation that is pending, processing or failed, and every file any
   route sends is an output file of a completed operation *)
C35_OnlyCompletedOutputsAreServed ==
  [][served' # served =>
       /\ (/\ served'.route \in OperationRoutes
           /\ db[served'.op].status \in {"pending", "processing", "failed"})
          => served'.code \in 400..499
       /\ (served'.code = 200 /\ served'.file # NoFile)
          => \E o \in Ops : /\ db[o].status = "completed"
                            /\ served'.file \in Range(db[o].outputFiles)]_vars

(* fileIndex is an integer in [0, n) *)
InRange(fileIndex, n) ==
  LET fileIdx == FileIdx(fileIndex)
  IN  ~fileIdx.nan /\ fileIdx.val >= 0 /\ fileIdx.val < n

(* C36: for a completed operation with n > 0 output files, preview-operation
   answers a fileIndex outside [0, n) with 400 'File index out of range', and
   sends outputFiles[fileIndex] for a fileIndex inside while that file is in
   storage *)
C36_FileIndexOutOfRangeIsRefused ==
  [][(/\ served' # served
      /\ served'.route = "preview-operation"
      /\ db[served'.op].status = "completed"
      /\ Len(db[served'.op].outputFiles) > 0)
     => LET outputFiles == db[served'.op].outputFiles
        IN  IF InRange(served'.arg, Len(outputFiles))
            THEN LET outputFile == outputFiles[FileIdx(served'.arg).val + 1]
                 IN  outputFile \in DOMAIN processed
                       => served'.code = 200 /\ served'.file = outputFile
            ELSE /\ served'.code = 400
                 /\ served'.message = "File index out of range"]_vars

(* The files the locators of the status responses name: previewUrl and
   downloadUrl of every input file, and of every output file of a completed
   operation *)
Located ==
  UNION {InputNames(o) \cup Range(polled[o].outputs) :
           o \in {p \in Ops : polled[p].code = 200}}

(* The input files stay in the directory uploads, the output files are in the
   directory processed until they are removed *)
InStorage(filename) == filename.kind = "upload" \/ filename \in DOMAIN processed

(* C38: following the downloadUrl or the previewUrl a status response gave
   for an input or an output file, while that file is in storage, is answered
   with the file *)
C38_LocatorsResolve ==
  [][(/\ served' # served
      /\ served'.route \in {"download", "preview"}
      /\ served'.wanted \in Located
      /\ InStorage(served'.wanted))
     => served'.code = 200 /\ served'.file = served'.wanted]_vars

----------------------------------------------------------------------------
(* The sweep and the output files of the operations *)

(* The TTL index on createdAt: expireAfterSeconds, and the lifetime of a
   record in milliseconds *)
ExpireAfterSeconds == 604800

RecordLifetime == ExpireAfterSeconds * 1000

(* The end of one turn of the loop over the files, for an output file *)
NextOutput(s, filename) ==
  IF s.outputs = {filename} /\ s.files = {} THEN NextDirectory(s)
  ELSE [s EXCEPT !.outputs = @ \ {filename}]

(* One turn of the loop over the files of the directory processed, for an
   output file of an operation: its last-modified time is the time it was
   written, the time in its name *)
examineOutput(filename) ==
  /\ sweep.pc = "files"
  /\ filename \in sweep.outputs
  /\ sweep' = NextOutput(sweep, filename)
  /\ \/ processed' = processed
     \/ /\ filename \in DOMAIN processed
        /\ processed' = IF Expired(sweep.now, filename.ts)
                        THEN Unlink(processed, filename)
                        ELSE processed
  /\ UNCHANGED <<req, resp, doc, db, pc, task, now, polled, listing, store,
                 served>>

(* One operation, then the sweep, which the timer starts fileCleanupInterval
   hours after the server started, and the requests for the result *)
RetentionNext ==
  \/ Fresh(1) /\ ServeRequest(1)
  \/ sweep.pc = "idle" /\ Task(1)
  \/ \E t \in SweepNows : cleanupFiles(t)
  \/ readdir
  \/ \E filename \in DOMAIN processed : examineOutput(filename)
  \/ downloadOperationResult(1)

RetentionSpec == Init /\ [][RetentionNext]_vars

(* The completed records that the TTL index has not yet removed when the
   last sweep started *)
CompletedRecords ==
  {o \in Ops : /\ db[o].status = "completed"
               /\ sweep.now - db[o].createdAt < RecordLifetime}

(* C37: while a completed record exists, the sweep has deleted none of the
   output files it lists, and download-operation for it is not answered
   'Output file not found' *)
C37_SweepKeepsListedOutputs ==
  \A o \in CompletedRecords :
    /\ \A k \in DOMAIN db[o].outputFiles :
         db[o].outputFiles[k] \in DOMAIN processed
    /\ ~(/\ served.route = "download-operation"
         /\ served.op = o
         /\ served.message = "Output file not found")

(* The same, for the answers of download-operation alone *)
DownloadOperationFindsTheFile ==
  \A o \in CompletedRecords :
    ~(/\ served.route = "download-operation"
      /\ served.op = o
      /\ served.message = "Output file not found")

====
